---- MODULE Spec2Model ----
(***************************************************************************)
(* Runtime borrow checker for C++ (ladroid/CppBorrowChecker).              *)
(*                                                                         *)
(* Three variants of the library live in the sources:                      *)
(*   v1  src/v2.h lines 218-390  hash-map registry, strict remove_borrow,  *)
(*                               Ref (copyable, movable) and MutableRef    *)
(*   v2  src/v2.h lines 1-217    hash-map registry, permissive             *)
(*                               remove_borrow, Own, Ref, MutableRef       *)
(*   v3  src/unnamed/part_000    fixed-capacity array registry, Own, Ref   *)
(*                                                                         *)
(* A behaviour of Spec is one program run: the variant and the build       *)
(* (assert compiled in or compiled out with NDEBUG) are fixed by Init, and *)
(* every step is one constructor, destructor, move, copy or member call on *)
(* handles that all point to the same BorrowChecker.                       *)
(* SpecReg is a second kind of run: no handles, the hash-map registry and  *)
(* the array registry receive the same sequence of calls.                  *)
(***************************************************************************)
EXTENDS Integers, Sequences, FiniteSets, TLC

\* ------------------------------------------------------------------ bounds
NAddr == 2    \* distinct non-null pointee addresses 1..NAddr
NOwn  == 3    \* Own objects the program may have alive at once
NRef  == 2    \* Ref objects
NMut  == 2    \* MutableRef objects
MaxLive == 3  \* handles of all three kinds alive at once

\* capacity of the array registry, BorrowChecker<int, 3>
N == 3

nullptr == 0
Addr    == 1..NAddr
Ptr     == 0..NAddr
OwnId   == 1..NOwn
RefId   == 1..NRef
MutId   == 1..NMut

\* enum class BorrowState
BorrowState == {"Valid", "Invalid", "MutableBorrowed", "Owned"}

\* a registry call either returns (st = "running") or ends the process
Ret(m)  == [m |-> m, st |-> "running"]
Die(m, how) == [m |-> m, st |-> how]

\* ------------------------------------------------- hash-map registry (v2)
\* std::unordered_map<void*, BorrowState>: "none" marks an absent key
EmptyMap == [p \in Ptr |-> "none"]

\* assert(count(ptr) == 0); borrow_map_[ptr] = state;
\* nd: the build defines NDEBUG, the assert is compiled out
add_borrow(m, ptr, state, nd) ==
    IF m[ptr] # "none" /\ ~nd
    THEN Die(m, "aborted")
    ELSE Ret([m EXCEPT ![ptr] = state])

\* mutant of remove_borrow: the entry is never erased
remove_borrow_keeps(m, ptr) == m

\* find; absent: return; erase
remove_borrow(m, ptr) == [m EXCEPT ![ptr] = "none"]

check_borrow(m, ptr) == IF m[ptr] = "none" THEN "Valid" ELSE m[ptr]

set_owned(m, ptr) == IF m[ptr] # "none" THEN [m EXCEPT ![ptr] = "Owned"] ELSE m

check_owned(m, ptr) == IF m[ptr] = "none" THEN FALSE ELSE m[ptr] = "Owned"

\* ------------------------------------------------- hash-map registry (v1)
add_borrow_v1(m, ptr, state, nd) ==
    IF m[ptr] # "none" /\ ~nd
    THEN Die(m, "aborted")
    ELSE Ret([m EXCEPT ![ptr] = state])

\* assert(count(ptr) != 0); erase(ptr)
remove_borrow_v1(m, ptr, nd) ==
    IF m[ptr] = "none" /\ ~nd
    THEN Die(m, "aborted")
    ELSE Ret([m EXCEPT ![ptr] = "none"])

check_borrow_v1(m, ptr) == IF m[ptr] = "none" THEN "Valid" ELSE m[ptr]

\* ---------------------------------------------------- array registry (v3)
\* std::array<PtrState, N> borrow_map_{}: value-initialised slots
\* (ptr = nullptr, state = BorrowState(0) = Valid)
EmptySlot == [ptr |-> nullptr, state |-> "Valid"]
EmptyArr  == [i \in 1..N |-> EmptySlot]

\* index of the first slot whose ptr field equals p, 0 if there is none
FirstSlot(arr, p) ==
    IF \E i \in 1..N : arr[i].ptr = p
    THEN CHOOSE i \in 1..N : arr[i].ptr = p /\ \A j \in 1..(i-1) : arr[j].ptr # p
    ELSE 0

\* states[Is] = slot empty ? Valid : (slot.ptr == ptr ? slot.state : Valid);
\* the first state that is not Valid is returned
check_borrow_impl(arr, ptr) ==
    LET states == [i \in 1..N |->
                     IF arr[i].ptr = nullptr THEN "Valid"
                     ELSE IF arr[i].ptr = ptr THEN arr[i].state ELSE "Valid"]
    IN  IF \E i \in 1..N : states[i] # "Valid"
        THEN states[CHOOSE i \in 1..N :
                      states[i] # "Valid" /\ \A j \in 1..(i-1) : states[j] = "Valid"]
        ELSE "Valid"

check_borrow_v3(arr, ptr) == check_borrow_impl(arr, ptr)

\* the first empty slot takes {ptr, state}; with no empty slot control reaches
\* __builtin_unreachable(): undefined behaviour, the outcomes modelled are a
\* crash and a plain return that stored nothing
add_borrow_v3(arr, ptr, state) ==
    LET i == FirstSlot(arr, nullptr)
    IN  IF i # 0
        THEN {Ret([arr EXCEPT ![i] = [ptr |-> ptr, state |-> state]])}
        ELSE {Die(arr, "crashed"), Ret(arr)}

\* mutant of remove_borrow_v3: the slot is never cleared
remove_borrow_v3_keeps(arr, ptr) == arr

\* the first slot holding ptr becomes {nullptr, Valid}
remove_borrow_v3(arr, ptr) ==
    LET i == FirstSlot(arr, ptr)
    IN  IF i # 0 THEN [arr EXCEPT ![i] = EmptySlot] ELSE arr

set_owned_v3(arr, ptr) ==
    LET i == FirstSlot(arr, ptr)
    IN  IF i # 0 THEN [arr EXCEPT ![i].state = "Owned"] ELSE arr

check_owned_v3(arr, ptr) ==
    LET i == FirstSlot(arr, ptr)
    IN  IF i # 0 THEN arr[i].state = "Owned" ELSE FALSE

\* ------------------------------------------------------------------- state
VARIABLES
    variant,        \* "v1" | "v2" | "v3": which library the program uses
    ndebug,         \* TRUE: built with NDEBUG, assert() is a no-op
    borrow_map_,    \* BorrowChecker::borrow_map_ of v1 / v2 (hash map)
    borrow_map_N,   \* BorrowChecker<T,N>::borrow_map_ of v3 (array of slots)
    owns,           \* Own objects:        [live, data_, is_owner_]
    refs,           \* Ref objects:        [live, data_, moved_from]
    muts,           \* MutableRef objects: [live, data_]
    freed,          \* per address, how often `delete data_` ran on it
    status,         \* "running" | "aborted" | "terminated" | "crashed"
    last            \* the last call: [op, ptr, res]

vars == <<variant, ndebug, borrow_map_, borrow_map_N, owns, refs, muts,
          freed, status, last>>

NoOwn == [live |-> FALSE, data_ |-> nullptr, is_owner_ |-> FALSE]
\* moved_from is history, not a member: TRUE once the object has been the
\* source of a move and not been assigned to since
NoRef == [live |-> FALSE, data_ |-> nullptr, moved_from |-> FALSE]
NoMut == [live |-> FALSE, data_ |-> nullptr]

\* The objects of a kind are kept in places 1..k: when the object in place h
\* is destroyed, the objects in the places above it are renumbered down by
\* one and the last place becomes free (a place is only a name for an object).
Destroy(f, h, none) ==
    [j \in DOMAIN f |->
        IF j < h THEN f[j]
        ELSE IF j + 1 \in DOMAIN f THEN f[j + 1] ELSE none]

Init ==
    /\ variant \in {"v1", "v2", "v3"}
    /\ ndebug \in IF variant = "v3" THEN {FALSE} ELSE BOOLEAN   \* v3 has no assert
    /\ borrow_map_ = EmptyMap
    /\ borrow_map_N = EmptyArr
    /\ owns = [o \in OwnId |-> NoOwn]
    /\ refs = [r \in RefId |-> NoRef]
    /\ muts = [x \in MutId |-> NoMut]
    /\ freed = [a \in Addr |-> 0]
    /\ status = "running"
    /\ last = [op |-> "none", ptr |-> nullptr, res |-> "ok"]

Call(op, ptr, res) == [op |-> op, ptr |-> ptr, res |-> res]

\* what a call that ended the process reports
ResOf(st) == IF st = "running" THEN "ok" ELSE st

\* `delete data_`: deleting nullptr does nothing; a second delete of the same
\* address is undefined behaviour (modelled: crash, or no visible effect)
Delete(ptr) ==
    IF ptr = nullptr
    THEN {[f |-> freed, st |-> "running"]}
    ELSE IF freed[ptr] = 0
         THEN {[f |-> [freed EXCEPT ![ptr] = 1], st |-> "running"]}
         ELSE {[f |-> [freed EXCEPT ![ptr] = 2], st |-> "running"],
               [f |-> [freed EXCEPT ![ptr] = 2], st |-> "crashed"]}

Running == status = "running"

\* A constructor builds the object in the first free place.
LiveCount == Cardinality({o \in OwnId : owns[o].live})
             + Cardinality({r \in RefId : refs[r].live})
             + Cardinality({x \in MutId : muts[x].live})
Room      == LiveCount < MaxLive
NewOwn(o) == Room /\ ~owns[o].live /\ \A j \in 1..(o-1) : owns[j].live
NewRef(r) == Room /\ ~refs[r].live /\ \A j \in 1..(r-1) : refs[j].live
NewMut(x) == Room /\ ~muts[x].live /\ \A j \in 1..(x-1) : muts[j].live


\* ------------------------------------------------------------ Own (v2, v3)
\* Own(T* data, BorrowChecker*): data_(data), is_owner_(true); no registry call.
\* The caller hands over fresh storage (`new T`): not deleted, and not held
\* by another Own.
Own_ctor(o, p) ==
    /\ Running /\ variant \in {"v2", "v3"}
    /\ NewOwn(o) /\ freed[p] = 0
    /\ \A j \in OwnId : ~(owns[j].live /\ owns[j].data_ = p)
    /\ owns' = [owns EXCEPT ![o] = [live |-> TRUE, data_ |-> p, is_owner_ |-> TRUE]]
    /\ last' = Call("Own", p, "ok")
    /\ UNCHANGED <<variant, ndebug, borrow_map_, borrow_map_N, refs, muts, freed, status>>

\* Own(Own&& other): data_(exchange(other.data_, nullptr)),
\* is_owner_(other.is_owner_); other.is_owner_ = false
Own_move_ctor(o, other) ==
    /\ Running /\ variant \in {"v2", "v3"}
    /\ NewOwn(o) /\ owns[other].live /\ o # other
    /\ owns' = [owns EXCEPT
                  ![o] = [live |-> TRUE, data_ |-> owns[other].data_,
                          is_owner_ |-> owns[other].is_owner_],
                  ![other] = [live |-> TRUE, data_ |-> nullptr, is_owner_ |-> FALSE]]
    /\ last' = Call("Own&&", owns[other].data_, "ok")
    /\ UNCHANGED <<variant, ndebug, borrow_map_, borrow_map_N, refs, muts, freed, status>>

\* operator=(Own&& other): if (this != &other) { remove_borrow(data_);
\* data_ = exchange(other.data_, nullptr); is_owner_ = other.is_owner_;
\* other.is_owner_ = false; }
Own_move_assign(o, other) ==
    /\ Running /\ variant \in {"v2", "v3"}
    /\ owns[o].live /\ owns[other].live
    /\ IF o # other
       THEN /\ borrow_map_' = IF variant = "v2"
                              THEN remove_borrow(borrow_map_, owns[o].data_)
                              ELSE borrow_map_
            /\ borrow_map_N' = IF variant = "v3"
                               THEN remove_borrow_v3(borrow_map_N, owns[o].data_)
                               ELSE borrow_map_N
            /\ owns' = [owns EXCEPT
                          ![o] = [live |-> TRUE, data_ |-> owns[other].data_,
                                  is_owner_ |-> owns[other].is_owner_],
                          ![other] = [live |-> TRUE, data_ |-> nullptr,
                                      is_owner_ |-> FALSE]]
       ELSE UNCHANGED <<borrow_map_, borrow_map_N, owns>>
    /\ last' = Call(IF o # other THEN "Own=" ELSE "Own=self", owns[other].data_, "ok")
    /\ UNCHANGED <<variant, ndebug, refs, muts, freed, status>>

\* ~Own(): if (is_owner_) { remove_borrow(data_); delete data_; }
Own_dtor(o) ==
    /\ Running /\ variant \in {"v2", "v3"}
    /\ owns[o].live
    /\ owns' = Destroy(owns, o, NoOwn)
    /\ IF owns[o].is_owner_
       THEN /\ borrow_map_' = IF variant = "v2"
                              THEN remove_borrow(borrow_map_, owns[o].data_)
                              ELSE borrow_map_
            /\ borrow_map_N' = IF variant = "v3"
                               THEN remove_borrow_v3(borrow_map_N, owns[o].data_)
                               ELSE borrow_map_N
            /\ \E d \in Delete(owns[o].data_) :
                 /\ freed' = d.f
                 /\ status' = d.st
                 /\ last' = Call("~Own", owns[o].data_, ResOf(d.st))
       ELSE /\ last' = Call("~Own", owns[o].data_, "ok")
            /\ UNCHANGED <<borrow_map_, borrow_map_N, freed, status>>
    /\ UNCHANGED <<variant, ndebug, refs, muts>>

\* v2 set_owner(): if (!is_owner_) throw runtime_error; set_owned(data_)
Own_set_owner(o) ==
    /\ Running /\ variant = "v2"
    /\ owns[o].live
    /\ IF ~owns[o].is_owner_
       THEN /\ last' = Call("set_owner", owns[o].data_, "throw")
            /\ UNCHANGED borrow_map_
       ELSE /\ borrow_map_' = set_owned(borrow_map_, owns[o].data_)
            /\ last' = Call("set_owner", owns[o].data_, "ok")
    /\ UNCHANGED <<variant, ndebug, borrow_map_N, owns, refs, muts, freed, status>>

\* v2 is_owned(): check_owned(data_)
Own_is_owned(o) == check_owned(borrow_map_, owns[o].data_)

\* v3 borrow<M>(): if (check_borrow(data_) != Valid) throw logic_error;
\* add_borrow(data_, Owned); return Own<T, M>(data_, borrow_checker_)
\* n is the object that receives the returned value; a call that throws
\* returns no object, so it needs no place for one
Own_borrow(o, n) ==
    /\ Running /\ variant = "v3"
    /\ owns[o].live
    /\ IF check_borrow_v3(borrow_map_N, owns[o].data_) # "Valid"
       THEN /\ last' = Call("borrow", owns[o].data_, "throw")
            /\ UNCHANGED <<borrow_map_N, owns, status>>
       ELSE \E r \in add_borrow_v3(borrow_map_N, owns[o].data_, "Owned") :
              /\ NewOwn(n)
              /\ borrow_map_N' = r.m
              /\ status' = r.st
              /\ owns' = IF r.st = "running"
                         THEN [owns EXCEPT ![n] = [live |-> TRUE,
                                 data_ |-> owns[o].data_, is_owner_ |-> TRUE]]
                         ELSE owns
              /\ last' = Call("borrow", owns[o].data_, ResOf(r.st))
    /\ UNCHANGED <<variant, ndebug, borrow_map_, refs, muts, freed>>

\* v3 set_owned(): if (check_borrow(data_) != Valid) throw logic_error;
\* borrow_checker_->set_owned(data_); is_owner_ = true
Own_set_owned(o) ==
    /\ Running /\ variant = "v3"
    /\ owns[o].live
    /\ IF check_borrow_v3(borrow_map_N, owns[o].data_) # "Valid"
       THEN /\ last' = Call("set_owned", owns[o].data_, "throw")
            /\ UNCHANGED <<borrow_map_N, owns>>
       ELSE /\ borrow_map_N' = set_owned_v3(borrow_map_N, owns[o].data_)
            /\ owns' = [owns EXCEPT ![o].is_owner_ = TRUE]
            /\ last' = Call("set_owned", owns[o].data_, "ok")
    /\ UNCHANGED <<variant, ndebug, borrow_map_, refs, muts, freed, status>>

\* v3 is_owner(): is_owner_ && check_owned(data_)
Own_is_owner(o) == owns[o].is_owner_ /\ check_owned_v3(borrow_map_N, owns[o].data_)

\* ------------------------------------------------------------------- Ref
\* run g on the registry f returned unless f ended the process
Then(f, g(_)) == IF f.st # "running" THEN f ELSE g(f.m)

\* v1 / v2 Ref(T* data, BorrowChecker*): assert(data_ != nullptr);
\* add_borrow(data_, Valid)   (the same text in both variants)
Ref_ctor(r, p) ==
    /\ Running /\ variant \in {"v1", "v2"}
    /\ NewRef(r)
    /\ LET f == IF p = nullptr /\ ~ndebug
                THEN Die(borrow_map_, "aborted")
                ELSE IF variant = "v2"
                     THEN add_borrow(borrow_map_, p, "Valid", ndebug)
                     ELSE add_borrow_v1(borrow_map_, p, "Valid", ndebug)
       IN  /\ borrow_map_' = f.m
           /\ status' = f.st
           /\ refs' = IF f.st = "running"
                      THEN [refs EXCEPT ![r] = [live |-> TRUE, data_ |-> p,
                                            moved_from |-> FALSE]]
                      ELSE refs
           /\ last' = Call("Ref", p, ResOf(f.st))
    /\ UNCHANGED <<variant, ndebug, borrow_map_N, owns, muts, freed>>

\* v3 Ref(T* data, BorrowChecker*): if (check_borrow(data_) != Valid)
\* throw logic_error; add_borrow(data_, Valid)
Ref_ctor_v3(r, p) ==
    /\ Running /\ variant = "v3"
    /\ NewRef(r)
    /\ IF check_borrow_v3(borrow_map_N, p) # "Valid"
       THEN /\ last' = Call("Ref", p, "throw")
            /\ UNCHANGED <<borrow_map_N, refs, status>>
       ELSE \E f \in add_borrow_v3(borrow_map_N, p, "Valid") :
              /\ borrow_map_N' = f.m
              /\ status' = f.st
              /\ refs' = IF f.st = "running"
                         THEN [refs EXCEPT ![r] = [live |-> TRUE, data_ |-> p,
                                            moved_from |-> FALSE]]
                         ELSE refs
              /\ last' = Call("Ref", p, ResOf(f.st))
    /\ UNCHANGED <<variant, ndebug, borrow_map_, owns, muts, freed>>

\* v2 / v3 Ref(Ref&& other) noexcept: data_(exchange(other.data_, nullptr))
Ref_move_ctor(r, other) ==
    /\ Running /\ variant \in {"v2", "v3"}
    /\ NewRef(r) /\ refs[other].live /\ r # other
    /\ refs' = [refs EXCEPT ![r] = [live |-> TRUE, data_ |-> refs[other].data_,
                                    moved_from |-> FALSE],
                            ![other] = [live |-> TRUE, data_ |-> nullptr,
                                        moved_from |-> TRUE]]
    /\ last' = Call("Ref&&", refs[other].data_, "ok")
    /\ UNCHANGED <<variant, ndebug, borrow_map_, borrow_map_N, owns, muts, freed, status>>

\* v1 Ref(Ref&& other): no member initialiser, so the asserts and the
\* check_borrow call read the indeterminate data_ and borrow_checker_ of the
\* new object: undefined behaviour.  Outcomes modelled: a crash, or the body
\* running as if borrow_checker_ already pointed to the registry:
\*   if (check_borrow(other.data_) != Valid) throw; data_ = other.data_;
\*   remove_borrow(other.data_); add_borrow(data_, Valid)
Ref_move_ctor_v1(r, other) ==
    /\ Running /\ variant = "v1"
    /\ NewRef(r) /\ refs[other].live /\ r # other
    /\ \/ /\ status' = "crashed"
          /\ last' = Call("Ref&&", refs[other].data_, "crashed")
          /\ UNCHANGED <<borrow_map_, refs>>
       \/ /\ check_borrow_v1(borrow_map_, refs[other].data_) # "Valid"
          /\ last' = Call("Ref&&", refs[other].data_, "throw")
          /\ UNCHANGED <<borrow_map_, refs, status>>
       \/ /\ check_borrow_v1(borrow_map_, refs[other].data_) = "Valid"
          /\ LET f == Then(remove_borrow_v1(borrow_map_, refs[other].data_, ndebug),
                           LAMBDA m : add_borrow_v1(m, refs[other].data_, "Valid", ndebug))
             IN  /\ borrow_map_' = f.m
                 /\ status' = f.st
                 /\ refs' = IF f.st = "running"
                            THEN [refs EXCEPT ![r] = [live |-> TRUE,
                                                      data_ |-> refs[other].data_,
                                                      moved_from |-> FALSE],
                                              ![other].moved_from = TRUE]
                            ELSE refs
                 /\ last' = Call("Ref&&", refs[other].data_, ResOf(f.st))
    /\ UNCHANGED <<variant, ndebug, borrow_map_N, owns, muts, freed>>

\* v2 operator=(Ref&& other) noexcept: if (this != &other) {
\*   if (check_borrow(other.data_) != Valid) throw;   -- escapes a noexcept
\*   function: std::terminate
\*   remove_borrow(data_); data_ = exchange(other.data_, nullptr);
\*   add_borrow(data_, Valid); }
Ref_move_assign(r, other) ==
    /\ Running /\ variant = "v2"
    /\ refs[r].live /\ refs[other].live
    /\ IF r = other
       THEN /\ last' = Call("Ref=self", refs[other].data_, "ok")
            /\ UNCHANGED <<borrow_map_, refs, status>>
       ELSE IF check_borrow(borrow_map_, refs[other].data_) # "Valid"
       THEN /\ status' = "terminated"
            /\ last' = Call("Ref=", refs[other].data_, "terminated")
            /\ UNCHANGED <<borrow_map_, refs>>
       ELSE LET f == add_borrow(remove_borrow(borrow_map_, refs[r].data_),
                                refs[other].data_, "Valid", ndebug)
            IN  /\ borrow_map_' = f.m
                /\ status' = f.st
                /\ refs' = [refs EXCEPT ![r] = [live |-> TRUE, data_ |-> refs[other].data_,
                                                moved_from |-> FALSE],
                                        ![other] = [live |-> TRUE, data_ |-> nullptr,
                                                    moved_from |-> TRUE]]
                /\ last' = Call("Ref=", refs[other].data_, ResOf(f.st))
    /\ UNCHANGED <<variant, ndebug, borrow_map_N, owns, muts, freed>>

\* v3 operator=(Ref&& other) noexcept: if (this != &other) {
\*   remove_borrow(data_); data_ = exchange(other.data_, nullptr); }
Ref_move_assign_v3(r, other) ==
    /\ Running /\ variant = "v3"
    /\ refs[r].live /\ refs[other].live
    /\ IF r = other
       THEN UNCHANGED <<borrow_map_N, refs>>
       ELSE /\ borrow_map_N' = remove_borrow_v3(borrow_map_N, refs[r].data_)
            /\ refs' = [refs EXCEPT ![r] = [live |-> TRUE, data_ |-> refs[other].data_,
                                            moved_from |-> FALSE],
                                    ![other] = [live |-> TRUE, data_ |-> nullptr,
                                                moved_from |-> TRUE]]
    /\ last' = Call(IF r # other THEN "Ref=" ELSE "Ref=self", refs[other].data_, "ok")
    /\ UNCHANGED <<variant, ndebug, borrow_map_, owns, muts, freed, status>>

\* v1 operator=(Ref&& other): assert(data_ != nullptr);
\*   if (this == &other) throw; if (check_borrow(other.data_) != Valid) throw;
\*   remove_borrow(data_); data_ = other.data_;
\*   remove_borrow(other.data_); add_borrow(data_, Valid)
Ref_move_assign_v1(r, other) ==
    /\ Running /\ variant = "v1"
    /\ refs[r].live /\ refs[other].live
    /\ IF refs[r].data_ = nullptr /\ ~ndebug
       THEN /\ status' = "aborted"
            /\ last' = Call("Ref=", refs[other].data_, "aborted")
            /\ UNCHANGED <<borrow_map_, refs>>
       ELSE IF r = other \/ check_borrow_v1(borrow_map_, refs[other].data_) # "Valid"
       THEN /\ last' = Call("Ref=", refs[other].data_, "throw")
            /\ UNCHANGED <<borrow_map_, refs, status>>
       ELSE LET f == Then(Then(remove_borrow_v1(borrow_map_, refs[r].data_, ndebug),
                               LAMBDA m : remove_borrow_v1(m, refs[other].data_, ndebug)),
                          LAMBDA m : add_borrow_v1(m, refs[other].data_, "Valid", ndebug))
            IN  /\ borrow_map_' = f.m
                /\ status' = f.st
                /\ refs' = [refs EXCEPT ![r] = [live |-> TRUE, data_ |-> refs[other].data_,
                                                moved_from |-> FALSE],
                                        ![other].moved_from = TRUE]
                /\ last' = Call("Ref=", refs[other].data_, ResOf(f.st))
    /\ UNCHANGED <<variant, ndebug, borrow_map_N, owns, muts, freed>>

\* v1 Ref(const Ref& other): data_(other.data_); assert(data_ != nullptr);
\*   add_borrow(data_, Valid)
Ref_copy_ctor_v1(r, other) ==
    /\ Running /\ variant = "v1"
    /\ NewRef(r) /\ refs[other].live /\ r # other
    /\ LET f == IF refs[other].data_ = nullptr /\ ~ndebug
                THEN Die(borrow_map_, "aborted")
                ELSE add_borrow_v1(borrow_map_, refs[other].data_, "Valid", ndebug)
       IN  /\ borrow_map_' = f.m
           /\ status' = f.st
           /\ refs' = IF f.st = "running"
                      THEN [refs EXCEPT ![r] = [live |-> TRUE,
                                                data_ |-> refs[other].data_,
                                                moved_from |-> FALSE]]
                      ELSE refs
           /\ last' = Call("Ref(const&)", refs[other].data_, ResOf(f.st))
    /\ UNCHANGED <<variant, ndebug, borrow_map_N, owns, muts, freed>>

\* v1 operator=(const Ref& other): assert(data_ != nullptr);
\*   if (this != &other) { remove_borrow(data_); data_ = other.data_;
\*   add_borrow(data_, Valid); }
Ref_copy_assign_v1(r, other) ==
    /\ Running /\ variant = "v1"
    /\ refs[r].live /\ refs[other].live
    /\ IF refs[r].data_ = nullptr /\ ~ndebug
       THEN /\ status' = "aborted"
            /\ last' = Call("Ref=(const&)", refs[other].data_, "aborted")
            /\ UNCHANGED <<borrow_map_, refs>>
       ELSE IF r = other
       THEN /\ last' = Call("Ref=(const&)", refs[other].data_, "ok")
            /\ UNCHANGED <<borrow_map_, refs, status>>
       ELSE LET f == Then(remove_borrow_v1(borrow_map_, refs[r].data_, ndebug),
                          LAMBDA m : add_borrow_v1(m, refs[other].data_, "Valid", ndebug))
            IN  /\ borrow_map_' = f.m
                /\ status' = f.st
                /\ refs' = [refs EXCEPT ![r] = [live |-> TRUE, data_ |-> refs[other].data_,
                                                moved_from |-> FALSE]]
                /\ last' = Call("Ref=(const&)", refs[other].data_, ResOf(f.st))
    /\ UNCHANGED <<variant, ndebug, borrow_map_N, owns, muts, freed>>

\* v2 ~Ref(): if (data_ != nullptr) remove_borrow(data_)
Ref_dtor(r) ==
    /\ Running /\ variant = "v2"
    /\ refs[r].live
    /\ borrow_map_' = IF refs[r].data_ # nullptr
                      THEN remove_borrow(borrow_map_, refs[r].data_)
                      ELSE borrow_map_
    /\ refs' = Destroy(refs, r, NoRef)
    /\ last' = Call("~Ref", refs[r].data_, "ok")
    /\ UNCHANGED <<variant, ndebug, borrow_map_N, owns, muts, freed, status>>

\* v1 ~Ref(): remove_borrow(data_)   (asserts that the key exists)
Ref_dtor_v1(r) ==
    /\ Running /\ variant = "v1"
    /\ refs[r].live
    /\ LET f == remove_borrow_v1(borrow_map_, refs[r].data_, ndebug)
       IN  /\ borrow_map_' = f.m
           /\ status' = f.st
           /\ last' = Call("~Ref", refs[r].data_, ResOf(f.st))
    /\ refs' = Destroy(refs, r, NoRef)
    /\ UNCHANGED <<variant, ndebug, borrow_map_N, owns, muts, freed>>

\* v3 ~Ref(): remove_borrow(data_)
Ref_dtor_v3(r) ==
    /\ Running /\ variant = "v3"
    /\ refs[r].live
    /\ borrow_map_N' = remove_borrow_v3(borrow_map_N, refs[r].data_)
    /\ refs' = Destroy(refs, r, NoRef)
    /\ last' = Call("~Ref", refs[r].data_, "ok")
    /\ UNCHANGED <<variant, ndebug, borrow_map_, owns, muts, freed, status>>

\* ------------------------------------------------------------ MutableRef
\* mutant of MutableRef_ctor: the constructor that throws runs the body of
\* ~MutableRef(), remove_borrow(data_), on its way out
MutableRef_ctor_unwinds(x, p) ==
    /\ Running /\ variant \in {"v1", "v2"}
    /\ IF check_borrow(borrow_map_, p) # "Valid"
       THEN /\ last' = Call("MutableRef", p, "throw")
            /\ borrow_map_' = remove_borrow(borrow_map_, p)
            /\ UNCHANGED <<muts, status>>
       ELSE LET f == IF variant = "v2"
                     THEN add_borrow(borrow_map_, p, "MutableBorrowed", ndebug)
                     ELSE add_borrow_v1(borrow_map_, p, "MutableBorrowed", ndebug)
            IN  /\ NewMut(x)
                /\ borrow_map_' = f.m
                /\ status' = f.st
                /\ muts' = IF f.st = "running"
                           THEN [muts EXCEPT ![x] = [live |-> TRUE, data_ |-> p]]
                           ELSE muts
                /\ last' = Call("MutableRef", p, ResOf(f.st))
    /\ UNCHANGED <<variant, ndebug, borrow_map_N, owns, refs, freed>>

\* v1 / v2 MutableRef(T* data, BorrowChecker*):
\*   if (check_borrow(data_) != Valid) throw runtime_error;
\*   add_borrow(data_, MutableBorrowed)   (the same text in both variants)
\* A constructor that throws builds no object: it needs no place for one,
\* and no destructor runs for it.
MutableRef_ctor(x, p) ==
    /\ Running /\ variant \in {"v1", "v2"}
    /\ IF check_borrow(borrow_map_, p) # "Valid"
       THEN /\ last' = Call("MutableRef", p, "throw")
            /\ UNCHANGED <<borrow_map_, muts, status>>
       ELSE LET f == IF variant = "v2"
                     THEN add_borrow(borrow_map_, p, "MutableBorrowed", ndebug)
                     ELSE add_borrow_v1(borrow_map_, p, "MutableBorrowed", ndebug)
            IN  /\ NewMut(x)
                /\ borrow_map_' = f.m
                /\ status' = f.st
                /\ muts' = IF f.st = "running"
                           THEN [muts EXCEPT ![x] = [live |-> TRUE, data_ |-> p]]
                           ELSE muts
                /\ last' = Call("MutableRef", p, ResOf(f.st))
    /\ UNCHANGED <<variant, ndebug, borrow_map_N, owns, refs, freed>>

\* v2 ~MutableRef(): remove_borrow(data_)
MutableRef_dtor(x) ==
    /\ Running /\ variant = "v2"
    /\ muts[x].live
    /\ borrow_map_' = remove_borrow(borrow_map_, muts[x].data_)
    /\ muts' = Destroy(muts, x, NoMut)
    /\ last' = Call("~MutableRef", muts[x].data_, "ok")
    /\ UNCHANGED <<variant, ndebug, borrow_map_N, owns, refs, freed, status>>

\* v1 ~MutableRef(): remove_borrow(data_)   (asserts that the key exists)
MutableRef_dtor_v1(x) ==
    /\ Running /\ variant = "v1"
    /\ muts[x].live
    /\ LET f == remove_borrow_v1(borrow_map_, muts[x].data_, ndebug)
       IN  /\ borrow_map_' = f.m
           /\ status' = f.st
           /\ last' = Call("~MutableRef", muts[x].data_, ResOf(f.st))
    /\ muts' = Destroy(muts, x, NoMut)
    /\ UNCHANGED <<variant, ndebug, borrow_map_N, owns, refs, freed>>

\* ------------------------------------------------------------------ Next
Next ==
    \/ \E o \in OwnId, p \in Addr : Own_ctor(o, p)
    \/ \E o \in OwnId, other \in OwnId : Own_move_ctor(o, other)
    \/ \E o \in OwnId, other \in OwnId : Own_move_assign(o, other)
    \/ \E o \in OwnId : Own_dtor(o)
    \/ \E o \in OwnId : Own_set_owner(o)
    \/ \E o \in OwnId, n \in OwnId : Own_borrow(o, n)
    \/ \E o \in OwnId : Own_set_owned(o)
    \/ \E r \in RefId, p \in Ptr : Ref_ctor(r, p)
    \/ \E r \in RefId, p \in Addr : Ref_ctor_v3(r, p)
    \/ \E r \in RefId, other \in RefId : Ref_move_ctor(r, other)
    \/ \E r \in RefId, other \in RefId : Ref_move_ctor_v1(r, other)
    \/ \E r \in RefId, other \in RefId : Ref_move_assign(r, other)
    \/ \E r \in RefId, other \in RefId : Ref_move_assign_v3(r, other)
    \/ \E r \in RefId, other \in RefId : Ref_move_assign_v1(r, other)
    \/ \E r \in RefId, other \in RefId : Ref_copy_ctor_v1(r, other)
    \/ \E r \in RefId, other \in RefId : Ref_copy_assign_v1(r, other)
    \/ \E r \in RefId : Ref_dtor(r)
    \/ \E r \in RefId : Ref_dtor_v1(r)
    \/ \E r \in RefId : Ref_dtor_v3(r)
    \/ \E x \in MutId, p \in Addr : MutableRef_ctor(x, p)
    \/ \E x \in MutId : MutableRef_dtor(x)
    \/ \E x \in MutId : MutableRef_dtor_v1(x)

Spec == Init /\ [][Next]_vars

\* The runs of a program that uses variant v2 in the default build
\* (assert() compiled in).
InitV2 == Init /\ variant = "v2" /\ ndebug = FALSE
NextV2 ==
    \/ \E o \in OwnId, p \in Addr : Own_ctor(o, p)
    \/ \E o \in OwnId, other \in OwnId : Own_move_ctor(o, other)
    \/ \E o \in OwnId, other \in OwnId : Own_move_assign(o, other)
    \/ \E o \in OwnId : Own_dtor(o)
    \/ \E o \in OwnId : Own_set_owner(o)
    \/ \E r \in RefId, p \in Ptr : Ref_ctor(r, p)
    \/ \E r \in RefId, other \in RefId : Ref_move_ctor(r, other)
    \/ \E r \in RefId, other \in RefId : Ref_move_assign(r, other)
    \/ \E r \in RefId : Ref_dtor(r)
    \/ \E x \in MutId, p \in Addr : MutableRef_ctor(x, p)
    \/ \E x \in MutId : MutableRef_dtor(x)
SpecV2 == InitV2 /\ [][NextV2]_vars

\* The runs of a program that uses variant v3 (it contains no assert()).
InitV3 == Init /\ variant = "v3" /\ ndebug = FALSE
NextV3 ==
    \/ \E o \in OwnId, p \in Addr : Own_ctor(o, p)
    \/ \E o \in OwnId, other \in OwnId : Own_move_ctor(o, other)
    \/ \E o \in OwnId, other \in OwnId : Own_move_assign(o, other)
    \/ \E o \in OwnId : Own_dtor(o)
    \/ \E o \in OwnId, n \in OwnId : Own_borrow(o, n)
    \/ \E o \in OwnId : Own_set_owned(o)
    \/ \E r \in RefId, p \in Addr : Ref_ctor_v3(r, p)
    \/ \E r \in RefId, other \in RefId : Ref_move_ctor(r, other)
    \/ \E r \in RefId, other \in RefId : Ref_move_assign_v3(r, other)
    \/ \E r \in RefId : Ref_dtor_v3(r)
SpecV3 == InitV3 /\ [][NextV3]_vars

\* The runs of a program that uses variant v1 in the default build
\* (assert() compiled in).
InitV1 == Init /\ variant = "v1" /\ ndebug = FALSE
NextV1 ==
    \/ \E r \in RefId, p \in Ptr : Ref_ctor(r, p)
    \/ \E r \in RefId, other \in RefId : Ref_move_ctor_v1(r, other)
    \/ \E r \in RefId, other \in RefId : Ref_move_assign_v1(r, other)
    \/ \E r \in RefId, other \in RefId : Ref_copy_ctor_v1(r, other)
    \/ \E r \in RefId, other \in RefId : Ref_copy_assign_v1(r, other)
    \/ \E r \in RefId : Ref_dtor_v1(r)
    \/ \E x \in MutId, p \in Addr : MutableRef_ctor(x, p)
    \/ \E x \in MutId : MutableRef_dtor_v1(x)
SpecV1 == InitV1 /\ [][NextV1]_vars

\* ------------------------------------------- the two registries side by side
\* A program that owns one BorrowChecker (hash map, v2) and one
\* BorrowChecker<T, N> (array) and passes every call to both, in the default
\* build.  No handle exists: owns, refs and muts stay empty.
\* last records what the hash map returned (res) and what the array returned
\* (resN); for add_borrow also the state passed and whether neither registry
\* held the address before (fresh); for remove_borrow the state that the
\* directly preceding add_borrow of a fresh address registered for the same
\* address (undoes, "none" if the preceding call was not one).
RegCall(op, ptr, res, resN, state, fresh, undoes) ==
    [op |-> op, ptr |-> ptr, res |-> res, resN |-> resN,
     state |-> state, fresh |-> fresh, undoes |-> undoes]

InitReg ==
    /\ variant = "registry"
    /\ ndebug = FALSE
    /\ borrow_map_ = EmptyMap
    /\ borrow_map_N = EmptyArr
    /\ owns = [o \in OwnId |-> NoOwn]
    /\ refs = [r \in RefId |-> NoRef]
    /\ muts = [x \in MutId |-> NoMut]
    /\ freed = [a \in Addr |-> 0]
    /\ status = "running"
    /\ last = RegCall("none", nullptr, "ok", "ok", "none", FALSE, "none")

\* the first outcome that ended the process, if any
Worst(st, stN) == IF st # "running" THEN st ELSE stN

\* add_borrow(ptr, state) on both
Reg_add_borrow(p, s) ==
    /\ Running /\ variant = "registry"
    /\ LET f == add_borrow(borrow_map_, p, s, ndebug)
       IN  \E g \in add_borrow_v3(borrow_map_N, p, s) :
             /\ borrow_map_' = f.m
             /\ borrow_map_N' = g.m
             /\ status' = Worst(f.st, g.st)
             /\ last' = RegCall("add_borrow", p, ResOf(f.st), ResOf(g.st), s,
                                borrow_map_[p] = "none" /\ FirstSlot(borrow_map_N, p) = 0,
                                "none")
    /\ UNCHANGED <<variant, ndebug, owns, refs, muts, freed>>

\* remove_borrow(ptr) on both
Reg_remove_borrow(p) ==
    /\ Running /\ variant = "registry"
    /\ borrow_map_' = remove_borrow(borrow_map_, p)
    /\ borrow_map_N' = remove_borrow_v3(borrow_map_N, p)
    /\ last' = RegCall("remove_borrow", p, "ok", "ok", "none", FALSE,
                       IF last.op = "add_borrow" /\ last.ptr = p /\ last.fresh
                       THEN last.state ELSE "none")
    /\ UNCHANGED <<variant, ndebug, owns, refs, muts, freed, status>>

\* set_owned(ptr) on both
Reg_set_owned(p) ==
    /\ Running /\ variant = "registry"
    /\ borrow_map_' = set_owned(borrow_map_, p)
    /\ borrow_map_N' = set_owned_v3(borrow_map_N, p)
    /\ last' = RegCall("set_owned", p, "ok", "ok", "none", FALSE, "none")
    /\ UNCHANGED <<variant, ndebug, owns, refs, muts, freed, status>>

\* check_borrow(ptr) on both
Reg_check_borrow(p) ==
    /\ Running /\ variant = "registry"
    /\ last' = RegCall("check_borrow", p, check_borrow(borrow_map_, p),
                       check_borrow_v3(borrow_map_N, p), "none", FALSE, "none")
    /\ UNCHANGED <<variant, ndebug, borrow_map_, borrow_map_N, owns, refs, muts,
                   freed, status>>

\* check_owned(ptr) on both
Reg_check_owned(p) ==
    /\ Running /\ variant = "registry"
    /\ last' = RegCall("check_owned", p, check_owned(borrow_map_, p),
                       check_owned_v3(borrow_map_N, p), "none", FALSE, "none")
    /\ UNCHANGED <<variant, ndebug, borrow_map_, borrow_map_N, owns, refs, muts,
                   freed, status>>

NextReg ==
    \/ \E p \in Addr, s \in BorrowState : Reg_add_borrow(p, s)
    \/ \E p \in Addr : Reg_remove_borrow(p)
    \/ \E p \in Addr : Reg_set_owned(p)
    \/ \E p \in Addr : Reg_check_borrow(p)
    \/ \E p \in Addr : Reg_check_owned(p)
SpecReg == InitReg /\ [][NextReg]_vars

\* ------------------------------------------------------------ observations
\* live handles bound to an address
ExclLive(a)   == {x \in MutId : muts[x].live /\ muts[x].data_ = a}
SharedLive(a) == {r \in RefId : refs[r].live /\ refs[r].data_ = a}
OwnLive(a)    == {o \in OwnId : owns[o].live /\ owns[o].data_ = a}

\* the registry of the running variant, through its public interface
Query(a) == IF variant = "v3" THEN check_borrow_v3(borrow_map_N, a)
            ELSE IF variant = "v2" THEN check_borrow(borrow_map_, a)
            ELSE check_borrow_v1(borrow_map_, a)

\* number of registry entries whose key is a
\* (a slot of the array whose ptr is nullptr is an empty slot, not an entry)
Entries(a) == IF variant = "v3"
              THEN IF a = nullptr THEN 0
                   ELSE Cardinality({i \in 1..N : borrow_map_N[i].ptr = a})
              ELSE IF borrow_map_[a] # "none" THEN 1 ELSE 0

\* some shared-access or exclusive-access handle is live over a
Borrowed(a) == ExclLive(a) # {} \/ SharedLive(a) # {}

\* an Own that a move has emptied: Own(Own&&) and operator=(Own&&) leave the
\* source with data_ = nullptr, and no constructor call passes nullptr
MovedFromOwn(o) == owns[o].live /\ owns[o].data_ = nullptr

\* a Ref that has been the source of a move
MovedFromRef(r) == refs[r].live /\ refs[r].moved_from

\* is_owned(a) of the registry of the running variant
IsOwned(a) == IF variant = "v3" THEN check_owned_v3(borrow_map_N, a)
              ELSE check_owned(borrow_map_, a)

\* what ~Ref() of the running variant would do to the registry if it ran on
\* r now: nothing
RefDtorInert(r) ==
    IF variant = "v2"
    THEN refs[r].data_ = nullptr
         \/ remove_borrow(borrow_map_, refs[r].data_) = borrow_map_
    ELSE IF variant = "v3"
    THEN remove_borrow_v3(borrow_map_N, refs[r].data_) = borrow_map_N
    ELSE remove_borrow_v1(borrow_map_, refs[r].data_, ndebug) = Ret(borrow_map_)

\* the Own objects that would delete a in their destructor
Owners(a) == {o \in OwnId : owns[o].live /\ owns[o].data_ = a /\ owns[o].is_owner_}

\* ------------------------------------------------------------------ claims

\* C1: for every address at most one exclusive-access handle (MutableRef) is
\* live, and while one is live no shared-access handle (Ref) over the same
\* address is live.  (Stated for the addresses whose storage has not been
\* deleted, so that a violation does not rest on a dangling pointer.)
C1_ExclusiveIsExclusive ==
    Running => \A a \in Addr : freed[a] = 0 =>
        /\ Cardinality(ExclLive(a)) <= 1
        /\ ExclLive(a) # {} => SharedLive(a) = {}

\* C2: a MutableRef constructor called over an address that a live MutableRef
\* holds ends with the recoverable fault (throw) and creates no handle; called
\* over an address that no live Ref or MutableRef holds it succeeds.
\* (Stated for the addresses whose storage has not been deleted.)
C2_SecondExclusiveRejected ==
    (last.op = "MutableRef" /\ last.ptr \in Addr /\ freed[last.ptr] = 0) =>
        /\ last.res = "ok" => Cardinality(ExclLive(last.ptr)) = 1
        /\ (last.res # "ok" /\ ExclLive(last.ptr) # {}) => last.res = "throw"
        /\ ~Borrowed(last.ptr) => last.res = "ok"

\* C3: a MutableRef constructor called over an address that a live Ref holds
\* ends with the recoverable fault (throw), not with an assertion abort and
\* not with success; called once no Ref or MutableRef holds the address it
\* succeeds.
C3_ExclusiveRejectedWhileShared ==
    last.op = "MutableRef" /\ last.ptr \in Addr =>
        /\ SharedLive(last.ptr) # {} => last.res = "throw"
        /\ (SharedLive(last.ptr) = {} /\ ExclLive(last.ptr) = {}) => last.res = "ok"

\* C4: a Ref constructor called over an address whose registry state is not
\* Valid ends with the recoverable fault (throw) and no Ref comes into
\* existence.
C4_SharedRejectedWhenNotValid ==
    [][\A r \in RefId, p \in Addr :
         ((Ref_ctor(r, p) \/ Ref_ctor_v3(r, p)) /\ Query(p) # "Valid")
             => (last'.res = "throw" /\ refs' = refs)]_vars

\* C5: with no MutableRef live over a, constructing or copy-constructing a
\* second Ref over a while a first one is live succeeds without any fault.
C5_SharedCoexist ==
    [][\A r \in RefId, p \in Addr :
         (/\ \/ Ref_ctor(r, p)
             \/ Ref_ctor_v3(r, p)
             \/ \E other \in RefId : refs[other].data_ = p /\ Ref_copy_ctor_v1(r, other)
          /\ SharedLive(p) # {} /\ ExclLive(p) = {})
             => (last'.res = "ok" /\ refs'[r].live /\ refs'[r].data_ = p)]_vars

\* C6: the registry (hash map and array alike) never holds more than one
\* entry for the same address.
C6_OneEntryPerAddress == \A a \in Addr : Entries(a) <= 1

\* C7: query(a) returns Valid if and only if the registry holds no entry
\* for a.
C7_ValidIffNoEntry == \A a \in Addr : (Query(a) = "Valid") <=> (Entries(a) = 0)

C9_MoveWhileBorrowedRejected ==
    [][/\ \A o \in OwnId, other \in OwnId :
            (/\ o # other
             /\ Own_move_ctor(o, other) \/ Own_move_assign(o, other)
             /\ owns[other].data_ \in Addr /\ Borrowed(owns[other].data_))
                => (last'.res = "throw" /\ owns'[other] = owns[other])
       /\ \A r \in RefId, other \in RefId :
            (/\ r # other
             /\ \/ Ref_move_ctor(r, other) \/ Ref_move_ctor_v1(r, other)
                \/ Ref_move_assign(r, other) \/ Ref_move_assign_v1(r, other)
                \/ Ref_move_assign_v3(r, other)
             /\ refs[other].data_ \in Addr
             /\ \/ ExclLive(refs[other].data_) # {}
                \/ SharedLive(refs[other].data_) \ {r, other} # {})
                => (last'.res = "throw" /\ refs'[other] = refs[other])]_vars

\* C10: after O2 is move-constructed from a live owning handle O1,
\* O1.is_owner() is false and O2.is_owner() is true.
C10_MoveTransfersIsOwner ==
    [][\A o \in OwnId, other \in OwnId :
         (/\ variant = "v3"
          /\ Own_move_ctor(o, other)
          /\ owns[other].is_owner_ /\ owns[other].data_ \in Addr)
             => (~Own_is_owner(other)' /\ Own_is_owner(o)')]_vars

\* C11: the destructor of a moved-from handle (Own or Ref) is a no-op: the
\* registry is left as it was, no storage is freed and the process keeps
\* running; in particular the entry now held by the handle that received the
\* binding stays.
C11_MovedFromDtorNoOp ==
    [][/\ \A r \in RefId :
            (MovedFromRef(r) /\ (Ref_dtor(r) \/ Ref_dtor_v1(r) \/ Ref_dtor_v3(r)))
                => (/\ borrow_map_' = borrow_map_ /\ borrow_map_N' = borrow_map_N
                    /\ freed' = freed /\ status' = "running")
       /\ \A o \in OwnId :
            (MovedFromOwn(o) /\ Own_dtor(o))
                => (/\ borrow_map_' = borrow_map_ /\ borrow_map_N' = borrow_map_N
                    /\ freed' = freed /\ status' = "running")]_vars

\* C12: when set_owner() / set_owned() returns normally on an Own bound to
\* address a, the registry state of a is Owned and is_owned(a) is true, also
\* when no handle had registered a before the call.
C12_ClaimOwnedMarksOwned ==
    [][\A o \in OwnId, a \in Addr :
         (/\ owns[o].live /\ owns[o].data_ = a
          /\ Own_set_owner(o) \/ Own_set_owned(o)
          /\ last'.res = "ok")
             => (Query(a)' = "Owned" /\ IsOwned(a)')]_vars

\* C13: set_owner() / set_owned() called on a moved-from Own ends with the
\* recoverable fault (throw), leaves the registry as it was and leaves the
\* handle a non-owner.
C13_ClaimOwnedOnMovedFromFails ==
    [][\A o \in OwnId :
         (MovedFromOwn(o) /\ (Own_set_owner(o) \/ Own_set_owned(o)))
             => (/\ last'.res = "throw"
                 /\ borrow_map_' = borrow_map_ /\ borrow_map_N' = borrow_map_N
                 /\ ~owns'[o].is_owner_)]_vars

\* C14: set_owner() / set_owned() called on an Own bound to a while a Ref or
\* a MutableRef over a is live ends with the recoverable fault (throw) and
\* leaves the registry, and so the state that borrow recorded, as it was.
C14_ClaimOwnedWhileBorrowedFails ==
    [][\A o \in OwnId, a \in Addr :
         (/\ owns[o].live /\ owns[o].data_ = a /\ Borrowed(a)
          /\ Own_set_owner(o) \/ Own_set_owned(o))
             => (/\ last'.res = "throw"
                 /\ borrow_map_' = borrow_map_ /\ borrow_map_N' = borrow_map_N)]_vars

\* C15: the hash-map registry and the array registry are observably
\* equivalent: given the same sequence of add_borrow / remove_borrow /
\* check_borrow / set_owned / check_owned calls, every call returns the same
\* result from both and ends in a fault in both or in neither.
C15_RegistriesEquivalent == last.res = last.resN

\* C17: for an address with no entry, add_borrow(a, s) directly followed by
\* remove_borrow(a) leaves check_borrow(a) = Valid, whatever the state s, in
\* the hash map and in the array.
C17_RegisterThenUnregister ==
    (last.op = "remove_borrow" /\ last.undoes # "none") =>
        /\ check_borrow(borrow_map_, last.ptr) = "Valid"
        /\ check_borrow_v3(borrow_map_N, last.ptr) = "Valid"

\* C17 witness: a state other than Valid was registered for a fresh address
\* and then removed, while the other address keeps its entry, which sits in
\* the array slot in front of the one that was released.
C17_Witness ==
    /\ Running
    /\ last.op = "remove_borrow" /\ last.undoes = "MutableBorrowed"
    /\ \E b \in Addr : /\ b # last.ptr
                        /\ borrow_map_[b] = "Owned"
                        /\ FirstSlot(borrow_map_N, b) = 1

\* C16: borrow() on an Own bound to address a returns normally only if
\* check_borrow(a) was Valid, and then check_borrow(a) is Owned; if
\* check_borrow(a) was not Valid it throws and leaves the registry as it was;
\* so a borrow() over a throws while the Own that an earlier borrow() returned
\* is live.  (Own objects are constructed over fresh storage only, so two
\* live Own objects bound to a are the source of a borrow() and the object
\* it returned.)
C16_BorrowIntoOwned ==
    [][\A o \in OwnId, n \in OwnId, a \in Addr :
         (owns[o].live /\ owns[o].data_ = a /\ Own_borrow(o, n))
             => /\ last'.res = "ok" => (Query(a) = "Valid" /\ Query(a)' = "Owned")
                /\ Query(a) # "Valid"
                     => (last'.res = "throw" /\ borrow_map_N' = borrow_map_N)
                /\ Cardinality(OwnLive(a)) >= 2 => last'.res = "throw"]_vars

\* C18: move-assigning a live Ref B bound to b into another live Ref A bound
\* to a (a # b, each address with its one entry) ends without a fault,
\* removes the entry for a, leaves exactly one entry for b, and leaves B so
\* that its destructor does not change the registry.
C18_RefMoveAssign ==
    [][\A r \in RefId, other \in RefId, a \in Addr, b \in Addr :
         (/\ r # other /\ a # b
          /\ refs[r].live /\ refs[r].data_ = a /\ ~refs[r].moved_from
          /\ refs[other].live /\ refs[other].data_ = b /\ ~refs[other].moved_from
          /\ Entries(a) = 1 /\ Entries(b) = 1
          /\ \/ Ref_move_assign(r, other) \/ Ref_move_assign_v3(r, other)
             \/ Ref_move_assign_v1(r, other))
             => (/\ last'.res = "ok"
                 /\ Entries(a)' = 0 /\ Entries(b)' = 1
                 /\ refs'[r].data_ = b
                 /\ RefDtorInert(other)')]_vars

\* C19: the destructor of an Own bound to a, and a move assignment into it,
\* remove no registry entry for a while a Ref or a MutableRef over a is
\* live.
C19_OwnKeepsBorrowersEntry ==
    [][\A o \in OwnId, a \in Addr :
         (/\ owns[o].live /\ owns[o].data_ = a /\ Borrowed(a)
          /\ \/ Own_dtor(o)
             \/ \E other \in OwnId \ {o} : Own_move_assign(o, other))
             => Entries(a)' = Entries(a)]_vars

\* C20: for every address at most one live Own has its owner flag set, and
\* the storage at the address is deleted at most once.
C20_SingleOwner ==
    \A a \in Addr : Cardinality(Owners(a)) <= 1 /\ freed[a] <= 1

\* C21: a MutableRef constructor that is rejected (throws) leaves the
\* registry exactly as it was: the entry that made it fail is still there
\* with the same state, no object comes into existence and nothing is
\* deregistered; so check_borrow still refuses the address afterwards and an
\* attempt that directly follows a rejected one is rejected again.
C21_RejectedCtorLeavesRegistry ==
    [][\A x \in MutId, p \in Addr :
         /\ (MutableRef_ctor(x, p) /\ last'.res = "throw")
               => (/\ borrow_map_' = borrow_map_
                   /\ borrow_map_[p] # "none" /\ borrow_map_'[p] = borrow_map_[p]
                   /\ muts' = muts /\ refs' = refs /\ owns' = owns
                   /\ status' = "running"
                   /\ check_borrow(borrow_map_', p) # "Valid")
         /\ (/\ last.op = "MutableRef" /\ last.res = "throw" /\ last.ptr = p
             /\ MutableRef_ctor(x, p))
               => last'.res = "throw"]_vars

\* C21 witness: a MutableRef holds an address, a second constructor over
\* that address has just been rejected, and the holder's MutableBorrowed
\* entry is in place; every handle place is taken.
C21_Witness ==
    /\ Running
    /\ last.op = "MutableRef" /\ last.res = "throw" /\ last.ptr \in Addr
    /\ ExclLive(last.ptr) # {}
    /\ borrow_map_[last.ptr] = "MutableBorrowed"
    /\ LiveCount = MaxLive

====
